---- MODULE Spec2Model ----
(***************************************************************************)
(* Model of basics/main.go: a linear script that connects to a document   *)
(* store, inserts, reads, updates and deletes documents of two            *)
(* collections of the "quickstart" database and drops everything again.   *)
(*                                                                         *)
(* The store and its client library are the environment: every call into  *)
(* the library either succeeds or returns an error, and the script's own  *)
(* control flow (log.Fatal, deferred calls, unchecked errors, nil          *)
(* dereferences) is what is modelled statement by statement.               *)
(***************************************************************************)
EXTENDS Integers, Sequences, FiniteSets, TLC

VARIABLES
    pc,                  \* the statement main() executes next
    exitCode,            \* -1 while running, else the process exit status
    defers,              \* deferred calls of main(), in order of registration
    ctxExpired,          \* the 10 s deadline of ctx has passed
    ctxCancelled,        \* cancel() has been called
    clientState,         \* "none", "created", "connected", "disconnected"
    podcastsCollection,  \* documents of quickstart.podcasts
    episodesCollection,  \* documents of quickstart.episodes
    existing,            \* names of the collections that exist in quickstart
    nextId,              \* next identifier the driver assigns on insert
    podcastId,           \* podcastId.InsertedID (0 before the insert)
    cursors,             \* per cursor object: "nil", "open" or "closed"
    buffer,              \* per cursor object: documents not yet consumed
    episodes,            \* var episodes []bson.M
    i,                   \* loop counter of the 3b loop
    podcast,             \* var podcast bson.M, as a sequence of 0 or 1 document
    episodesFiltered,    \* var episodesFiltered []bson.M
    episodesSorted,      \* var episodesSorted []bson.M
    podcasts,            \* var podcasts []bson.M
    resultNil,           \* the *UpdateResult held by result is nil
    lastErr,             \* history: the last workflow step returned an error
    opCount,             \* history: number of workflow steps issued so far
    prevPodcasts,        \* history: podcasts collection before the last write to it
    initial,             \* history: the two collections when the run started
    cleanup,             \* history: deferred calls performed, in order
    disconnects          \* history: number of calls of client.Disconnect

store == <<podcastsCollection, episodesCollection, existing, nextId>>
prog  == <<podcastId, episodes, i, podcast, episodesFiltered, episodesSorted,
           podcasts, resultNil>>
cur   == <<cursors, buffer>>
env   == <<ctxExpired, ctxCancelled, clientState, defers, cleanup, disconnects>>
hist  == <<prevPodcasts, initial>>
vars  == <<pc, exitCode, store, prog, cur, env, hist, lastErr, opCount>>

----------------------------------------------------------------------------
(* Bounds *)

\* at most this many documents are already in each collection when the run starts
MaxLeftover == 1

----------------------------------------------------------------------------
(* Documents and the literals of the script *)

PolyglotTitle == "The Polyglot Dev Pod"
Tags == <<"development", "programming", "coding">>

\* first InsertOne: title and author only
PodcastDoc1(id) ==
    [_id |-> id, title |-> PolyglotTitle, author |-> "Nic Raboy"]

\* second InsertOne: title, author and tags
PodcastDoc2(id) ==
    [_id |-> id, title |-> PolyglotTitle, author |-> "Nic Raboy", tags |-> Tags]

\* mutant: the episodes reference the first podcast instead of the captured one
EpisodeDocs_mut(pid, id) ==
    { [_id |-> id, podcast |-> pid - 1, title |-> "GraphQL...",
       descriptions |-> "Foo bar", duration |-> 25],
      [_id |-> id + 1, podcast |-> pid - 1, title |-> "Prog Web...",
       descriptions |-> "Alpha beta", duration |-> 32] }

\* InsertMany: two episodes referencing podcastId.InsertedID
EpisodeDocs(pid, id) ==
    { [_id |-> id, podcast |-> pid, title |-> "GraphQL...",
       descriptions |-> "Foo bar", duration |-> 25],
      [_id |-> id + 1, podcast |-> pid, title |-> "Prog Web...",
       descriptions |-> "Alpha beta", duration |-> 32] }

\* the replacement document of ReplaceOne
Replacement == [title |-> "The Nic Raboy Show", author |-> "Nico Raboy"]

\* documents a run that was aborted by an error, or another user of the
\* database, may have left in the collections
LeftoverPodcasts ==
    { [_id |-> 1, title |-> PolyglotTitle, author |-> "Nic Raboy", tags |-> Tags],
      [_id |-> 2, title |-> "The Nic Raboy Show", author |-> "Nico Raboy"],
      [_id |-> 3, title |-> "Other Show", author |-> "Nicolas Raboy"] }

LeftoverEpisodes ==
    { [_id |-> 4, podcast |-> 1, title |-> "GraphQL...",
       descriptions |-> "Foo bar", duration |-> 25],
      [_id |-> 5, podcast |-> 3, title |-> "Short",
       descriptions |-> "Gamma", duration |-> 20] }

\* identifiers the driver generates are fresh: above every identifier in use
FirstFreshId == Cardinality(LeftoverPodcasts \cup LeftoverEpisodes) + 1

----------------------------------------------------------------------------
(* The store's operations, as far as the script uses them *)

\* the filters of the script
FilterAll == [op |-> "all"]
FilterDuration25 == [op |-> "eq", field |-> "duration", value |-> 25]
FilterById(id) == [op |-> "eq", field |-> "_id", value |-> id]
FilterTitle == [op |-> "eq", field |-> "title", value |-> PolyglotTitle]
FilterAuthor == [op |-> "eq", field |-> "author", value |-> "Nicolas Raboy"]

\* mutant: the bound is off by one ($gt 19, that is $gte 20)
FilterDurationGt20_mut == [op |-> "gt", field |-> "duration", value |-> 19]

FilterDurationGt20 == [op |-> "gt", field |-> "duration", value |-> 20]

\* options.Find().SetSort(bson.D{{"duration", -1}})
SortDuration == [field |-> "duration", dir |-> -1]

Matches(f, d) ==
    CASE f.op = "all" -> TRUE
      [] f.op = "eq"  -> f.field \in DOMAIN d /\ d[f.field] = f.value
      [] f.op = "gt"  -> f.field \in DOMAIN d /\ d[f.field] > f.value

Matching(coll, f) == { d \in coll : Matches(f, d) }

\* every order in which the store may return the documents of S
Orderings(S) ==
    { s \in [1..Cardinality(S) -> S] :
        \A a, b \in 1..Cardinality(S) : a # b => s[a] # s[b] }

\* Find without sort option: the matching documents in some order
FindResults(coll, f) == Orderings(Matching(coll, f))

\* Find with a sort option: the matching documents ordered by the sort key
FindSortedResults(coll, f, sort) ==
    { s \in Orderings(Matching(coll, f)) :
        \A a \in 1..(Len(s) - 1) :
            IF sort.dir = -1 THEN s[a][sort.field] >= s[a + 1][sort.field]
                             ELSE s[a][sort.field] <= s[a + 1][sort.field] }

\* mutant: without $set the update document replaces the whole document
SetField_mut(d, k, v) ==
    [f \in {"_id", k} |-> IF f = k THEN v ELSE d[f]]

\* $set of one field
SetField(d, k, v) ==
    [f \in DOMAIN d \cup {k} |-> IF f = k THEN v ELSE d[f]]

\* UpdateOne: the first matching document, whichever the store finds first
UpdateOneResults(coll, f, k, v) ==
    IF Matching(coll, f) = {} THEN {coll}
    ELSE { (coll \ {d}) \cup {SetField(d, k, v)} : d \in Matching(coll, f) }

\* UpdateMany: every matching document
UpdateManyResult(coll, f, k, v) ==
    { IF Matches(f, d) THEN SetField(d, k, v) ELSE d : d \in coll }

\* mutant: the replacement is merged into the old document ($set semantics)
ReplaceDoc_mut(old, new) ==
    [f \in DOMAIN old \cup DOMAIN new |-> IF f \in DOMAIN new THEN new[f] ELSE old[f]]

\* ReplaceOne: the new document takes the identifier of the old one
ReplaceDoc(old, new) ==
    [f \in DOMAIN new \cup {"_id"} |-> IF f = "_id" THEN old[f] ELSE new[f]]

ReplaceOneResults(coll, f, new) ==
    IF Matching(coll, f) = {} THEN {coll}
    ELSE { (coll \ {d}) \cup {ReplaceDoc(d, new)} : d \in Matching(coll, f) }

DeleteOneResults(coll, f) ==
    IF Matching(coll, f) = {} THEN {coll}
    ELSE { coll \ {d} : d \in Matching(coll, f) }

DeleteManyResult(coll, f) == coll \ Matching(coll, f)

\* mutant: the drop leaves the documents in place
Dropped_mut(coll) == coll

\* Drop: nothing of the collection remains
Dropped(coll) == {}

----------------------------------------------------------------------------
(* The context and the outcome of a call into the client library *)

CursorNames ==
    {"cursor3a", "cursor3b", "filterCursor", "sortCursor", "podCursor1", "podCursor2"}

\* mutant: one call is given a context of its own instead of ctx
Ctx_mut(step) == IF step = "UpdateMany" THEN "background" ELSE "ctx"

\* the context a call that talks to the store is given: always ctx
Ctx(step) == "ctx"

\* TRUE: the call returns a nil error; FALSE: it returns an error.  A call
\* that talks to the store fails once the deadline of its context has passed.
Outcomes(step) ==
    IF ctxExpired /\ Ctx(step) = "ctx" THEN {FALSE} ELSE BOOLEAN

\* if err != nil { log.Fatal(err) }: os.Exit(1), deferred calls do not run
Checked(ok, next) ==
    /\ lastErr' = ~ok
    /\ opCount' = opCount + 1
    /\ pc' = IF ok THEN next ELSE "Exited"
    /\ exitCode' = IF ok THEN exitCode ELSE 1

\* the error result is discarded (assigned to _, not assigned, or not tested)
Unchecked(ok, next) ==
    /\ lastErr' = ~ok
    /\ opCount' = opCount + 1
    /\ pc' = next
    /\ exitCode' = exitCode

\* a statement that calls nothing that can fail
Plain(next) ==
    /\ pc' = next
    /\ UNCHANGED <<exitCode, lastErr, opCount>>

\* a run-time panic: main() unwinds, running its deferred calls
Panics ==
    /\ pc' = "Panic"
    /\ UNCHANGED <<exitCode, lastErr, opCount>>

\* mutant: deferred calls run in the order of their registration
DeferredIndex_mut(s) == 1

\* deferred calls run last registered first
DeferredIndex(s) == Len(s)

RemoveAt(s, k) == SubSeq(s, 1, k - 1) \o SubSeq(s, k + 1, Len(s))

\* what a slice holds when reading the sequence s was cut short
ProperPrefixes(s) == { SubSeq(s, 1, n) : n \in 0..(Len(s) - 1) }

----------------------------------------------------------------------------
(* Initial state *)

Init ==
    /\ pc = "NewClient"
    /\ exitCode = -1
    /\ defers = <<>>
    /\ ctxExpired = FALSE
    /\ ctxCancelled = FALSE
    /\ clientState = "none"
    /\ podcastsCollection \in
           { P \in SUBSET LeftoverPodcasts : Cardinality(P) <= MaxLeftover }
    /\ episodesCollection \in
           { E \in SUBSET LeftoverEpisodes : Cardinality(E) <= MaxLeftover }
    /\ existing = (IF podcastsCollection # {} THEN {"podcasts"} ELSE {})
                      \cup (IF episodesCollection # {} THEN {"episodes"} ELSE {})
    /\ nextId = FirstFreshId
    /\ podcastId = 0
    /\ cursors = [c \in CursorNames |-> "nil"]
    /\ buffer = [c \in CursorNames |-> <<>>]
    /\ episodes = <<>>
    /\ i = 0
    /\ podcast = <<>>
    /\ episodesFiltered = <<>>
    /\ episodesSorted = <<>>
    /\ podcasts = <<>>
    /\ resultNil = TRUE
    /\ lastErr = FALSE
    /\ opCount = 0
    /\ prevPodcasts = podcastsCollection
    /\ initial = [podcasts |-> podcastsCollection, episodes |-> episodesCollection]
    /\ cleanup = <<>>
    /\ disconnects = 0

----------------------------------------------------------------------------
(* 1) Setup *)

NewClient ==
    /\ pc = "NewClient"
    /\ \E ok \in BOOLEAN :
        /\ Checked(ok, "WithTimeout")
        /\ clientState' = IF ok THEN "created" ELSE clientState
    /\ UNCHANGED <<store, prog, cur, hist, defers, ctxExpired, ctxCancelled,
                   cleanup, disconnects>>

WithTimeout ==
    /\ pc = "WithTimeout"
    /\ Plain("Connect")
    /\ defers' = Append(defers, "cancel")
    /\ UNCHANGED <<store, prog, cur, hist, clientState, ctxExpired, ctxCancelled,
                   cleanup, disconnects>>

\* the timer of context.WithTimeout fires
DeadlineExpires ==
    /\ pc \notin {"NewClient", "WithTimeout", "Exited"}
    /\ ~ctxExpired
    /\ ~ctxCancelled
    /\ ctxExpired' = TRUE
    /\ UNCHANGED <<pc, exitCode, store, prog, cur, hist, lastErr, opCount,
                   clientState, defers, ctxCancelled, cleanup, disconnects>>

Connect ==
    /\ pc = "Connect"
    /\ \E ok \in Outcomes("Connect") :
        /\ Checked(ok, "DeferDisconnect")
        /\ clientState' = IF ok THEN "connected" ELSE clientState
    /\ UNCHANGED <<store, prog, cur, hist, defers, ctxExpired, ctxCancelled,
                   cleanup, disconnects>>

DeferDisconnect ==
    /\ pc = "DeferDisconnect"
    /\ Plain("Ping")
    /\ defers' = Append(defers, "Disconnect")
    /\ UNCHANGED <<store, prog, cur, hist, clientState, ctxExpired, ctxCancelled,
                   cleanup, disconnects>>

Ping ==
    /\ pc = "Ping"
    /\ \E ok \in Outcomes("Ping") : Checked(ok, "ListDatabaseNames")
    /\ UNCHANGED <<store, prog, cur, hist, env>>

ListDatabaseNames ==
    /\ pc = "ListDatabaseNames"
    /\ \E ok \in Outcomes("ListDatabaseNames") : Checked(ok, "InsertOne1")
    /\ UNCHANGED <<store, prog, cur, hist, env>>

----------------------------------------------------------------------------
(* 2) Insert documents *)

InsertOne1 ==
    /\ pc = "InsertOne1"
    /\ \E ok \in Outcomes("InsertOne1") :
        /\ Checked(ok, "InsertOne2")
        /\ IF ok
           THEN /\ podcastsCollection' = podcastsCollection \cup {PodcastDoc1(nextId)}
                /\ existing' = existing \cup {"podcasts"}
                /\ nextId' = nextId + 1
           ELSE UNCHANGED <<podcastsCollection, existing, nextId>>
    /\ UNCHANGED <<episodesCollection, prog, cur, hist, env>>

InsertOne2 ==
    /\ pc = "InsertOne2"
    /\ \E ok \in Outcomes("InsertOne2") :
        /\ Checked(ok, "InsertMany")
        /\ IF ok
           THEN /\ podcastsCollection' = podcastsCollection \cup {PodcastDoc2(nextId)}
                /\ existing' = existing \cup {"podcasts"}
                /\ podcastId' = nextId
                /\ nextId' = nextId + 1
           ELSE UNCHANGED <<podcastsCollection, existing, nextId, podcastId>>
    /\ UNCHANGED <<episodesCollection, episodes, i, podcast, episodesFiltered,
                   episodesSorted, podcasts, resultNil, cur, hist, env>>

InsertMany ==
    /\ pc = "InsertMany"
    /\ \E ok \in Outcomes("InsertMany") :
        /\ Checked(ok, "Find3a")
        /\ IF ok
           THEN /\ episodesCollection' =
                       episodesCollection \cup EpisodeDocs(podcastId, nextId)
                /\ existing' = existing \cup {"episodes"}
                /\ nextId' = nextId + 2
           ELSE UNCHANGED <<episodesCollection, existing, nextId>>
    /\ UNCHANGED <<podcastsCollection, prog, cur, hist, env>>

----------------------------------------------------------------------------
(* 3) Read documents *)

\* coll.Find(ctx, filter): on success the cursor c holds one of `results`
OpenCursor(c, results) ==
    \E s \in results :
        /\ cursors' = [cursors EXCEPT ![c] = "open"]
        /\ buffer' = [buffer EXCEPT ![c] = s]

\* cursor.All closes the cursor whether or not it returns an error
CloseCursor(c) ==
    /\ cursors' = [cursors EXCEPT ![c] = "closed"]
    /\ buffer' = [buffer EXCEPT ![c] = <<>>]

Find3a ==
    /\ pc = "Find3a"
    /\ \E ok \in Outcomes("Find3a") :
        /\ Checked(ok, "All3a")
        /\ IF ok THEN OpenCursor("cursor3a", FindResults(episodesCollection, FilterAll))
                 ELSE UNCHANGED cur
    /\ UNCHANGED <<store, prog, hist, env>>

\* cursor.All(ctx, &episodes) decodes what the cursor holds: it may return an
\* error, and is not taken to fail only because the deadline has passed
All3a ==
    /\ pc = "All3a"
    /\ \E ok \in BOOLEAN :
        /\ Checked(ok, "Find3b")
        /\ episodes' = IF ok THEN buffer["cursor3a"] ELSE episodes
    /\ CloseCursor("cursor3a")
    /\ UNCHANGED <<store, podcastId, i, podcast, episodesFiltered, episodesSorted,
                   podcasts, resultNil, hist, env>>

Find3b ==
    /\ pc = "Find3b"
    /\ \E ok \in Outcomes("Find3b") :
        /\ Checked(ok, "DeferClose")
        /\ IF ok THEN OpenCursor("cursor3b", FindResults(episodesCollection, FilterAll))
                 ELSE UNCHANGED cur
    /\ UNCHANGED <<store, prog, hist, env>>

\* defer cursor.Close(ctx), and the initialisation of the loop
DeferClose ==
    /\ pc = "DeferClose"
    /\ Plain("Next3b")
    /\ defers' = Append(defers, "Close")
    /\ i' = 1
    /\ UNCHANGED <<store, podcastId, episodes, podcast, episodesFiltered,
                   episodesSorted, podcasts, resultNil, cur, hist, clientState,
                   ctxExpired, ctxCancelled, cleanup, disconnects>>

\* cursor.Next(ctx) returns a bool, no error: true while a document is
\* buffered, false when none is left
Next3b ==
    /\ pc = "Next3b"
    /\ IF buffer["cursor3b"] # <<>>
       THEN Unchecked(TRUE, "Decode3b")
       ELSE Unchecked(TRUE, "FindOne3c")
    /\ UNCHANGED <<store, prog, cur, hist, env>>

\* cursor.Decode(&episode), then i++
Decode3b ==
    /\ pc = "Decode3b"
    /\ \E ok \in BOOLEAN :
        /\ Checked(ok, "Next3b")
        /\ IF ok
           THEN /\ buffer' = [buffer EXCEPT !["cursor3b"] = Tail(@)]
                /\ i' = i + 1
           ELSE UNCHANGED <<buffer, i>>
    /\ UNCHANGED <<store, podcastId, episodes, podcast, episodesFiltered,
                   episodesSorted, podcasts, resultNil, cursors, hist, env>>

\* FindOne(ctx, bson.M{}).Decode(&podcast): an error when nothing matches
FindOne3c ==
    /\ pc = "FindOne3c"
    /\ \E ok \in Outcomes("FindOne3c") :
        IF ok /\ Matching(podcastsCollection, FilterAll) # {}
        THEN /\ Checked(TRUE, "Find3d")
             /\ \E d \in Matching(podcastsCollection, FilterAll) : podcast' = <<d>>
        ELSE /\ Checked(FALSE, "Find3d")
             /\ podcast' = podcast
    /\ UNCHANGED <<store, podcastId, episodes, i, episodesFiltered, episodesSorted,
                   podcasts, resultNil, cur, hist, env>>

Find3d ==
    /\ pc = "Find3d"
    /\ \E ok \in Outcomes("Find3d") :
        /\ Checked(ok, "All3d")
        /\ IF ok THEN OpenCursor("filterCursor",
                                 FindResults(episodesCollection, FilterDuration25))
                 ELSE UNCHANGED cur
    /\ UNCHANGED <<store, prog, hist, env>>

All3d ==
    /\ pc = "All3d"
    /\ \E ok \in BOOLEAN :
        /\ Checked(ok, "Find3e")
        /\ episodesFiltered' = IF ok THEN buffer["filterCursor"] ELSE episodesFiltered
    /\ CloseCursor("filterCursor")
    /\ UNCHANGED <<store, podcastId, episodes, i, podcast, episodesSorted,
                   podcasts, resultNil, hist, env>>

Find3e ==
    /\ pc = "Find3e"
    /\ \E ok \in Outcomes("Find3e") :
        /\ Checked(ok, "All3e")
        /\ IF ok THEN OpenCursor("sortCursor",
                                 FindSortedResults(episodesCollection,
                                                   FilterDurationGt20, SortDuration))
                 ELSE UNCHANGED cur
    /\ UNCHANGED <<store, prog, hist, env>>

All3e ==
    /\ pc = "All3e"
    /\ \E ok \in BOOLEAN :
        /\ Checked(ok, "Find4a1")
        /\ episodesSorted' = IF ok THEN buffer["sortCursor"] ELSE episodesSorted
    /\ CloseCursor("sortCursor")
    /\ UNCHANGED <<store, podcastId, episodes, i, podcast, episodesFiltered,
                   podcasts, resultNil, hist, env>>

----------------------------------------------------------------------------
(* 4) Update documents *)

\* podCursor, _ := Find(ctx, {"_id": id}): on an error the cursor is nil
FindPodcast(c, next) ==
    \E ok \in Outcomes(c) :
        /\ Unchecked(ok, next)
        /\ IF ok THEN OpenCursor(c, FindResults(podcastsCollection,
                                                FilterById(podcastId)))
                 ELSE UNCHANGED cur

\* podCursor.All(ctx, &podcasts), result discarded: a nil cursor panics; on an
\* error podcasts keeps its value or holds the documents decoded so far
AllPodcasts(c, next) ==
    IF cursors[c] = "nil"
    THEN /\ Panics
         /\ UNCHANGED <<podcasts, cur>>
    ELSE /\ \E ok \in BOOLEAN :
             /\ Unchecked(ok, next)
             /\ IF ok THEN podcasts' = buffer[c]
                      ELSE podcasts' \in {podcasts} \cup ProperPrefixes(buffer[c])
         /\ CloseCursor(c)

\* podcasts[0]["author"]: index out of range on an empty slice
IndexPodcasts(next) ==
    IF Len(podcasts) = 0 THEN Panics ELSE Plain(next)

Find4a1 ==
    /\ pc = "Find4a1"
    /\ FindPodcast("podCursor1", "All4a1")
    /\ UNCHANGED <<store, prog, hist, env>>

All4a1 ==
    /\ pc = "All4a1"
    /\ AllPodcasts("podCursor1", "Index4a1")
    /\ UNCHANGED <<store, podcastId, episodes, i, podcast, episodesFiltered,
                   episodesSorted, resultNil, hist, env>>

Index4a1 ==
    /\ pc = "Index4a1"
    /\ IndexPodcasts("UpdateOne")
    /\ UNCHANGED <<store, prog, cur, hist, env>>

UpdateOne ==
    /\ pc = "UpdateOne"
    /\ \E ok \in Outcomes("UpdateOne") :
        /\ Checked(ok, "Find4a2")
        /\ IF ok
           THEN /\ podcastsCollection' \in
                       UpdateOneResults(podcastsCollection, FilterById(podcastId),
                                        "author", "Nicky Raboy")
                /\ prevPodcasts' = podcastsCollection
           ELSE UNCHANGED <<podcastsCollection, prevPodcasts>>
    /\ UNCHANGED <<episodesCollection, existing, nextId, prog, cur, initial, env>>

Find4a2 ==
    /\ pc = "Find4a2"
    /\ FindPodcast("podCursor2", "All4a2")
    /\ UNCHANGED <<store, prog, hist, env>>

All4a2 ==
    /\ pc = "All4a2"
    /\ AllPodcasts("podCursor2", "Index4a2")
    /\ UNCHANGED <<store, podcastId, episodes, i, podcast, episodesFiltered,
                   episodesSorted, resultNil, hist, env>>

Index4a2 ==
    /\ pc = "Index4a2"
    /\ IndexPodcasts("UpdateMany")
    /\ UNCHANGED <<store, prog, cur, hist, env>>

UpdateMany ==
    /\ pc = "UpdateMany"
    /\ \E ok \in Outcomes("UpdateMany") :
        /\ Checked(ok, "ReplaceOne")
        /\ IF ok
           THEN /\ podcastsCollection' =
                       UpdateManyResult(podcastsCollection, FilterTitle,
                                        "author", "Nicolas Raboy")
                /\ prevPodcasts' = podcastsCollection
                /\ resultNil' = FALSE
           ELSE UNCHANGED <<podcastsCollection, prevPodcasts, resultNil>>
    /\ UNCHANGED <<episodesCollection, existing, nextId, podcastId, episodes, i,
                   podcast, episodesFiltered, episodesSorted, podcasts, cur,
                   initial, env>>

\* result, err = ReplaceOne(...): err is not tested; with an error the driver
\* returns a nil result or, for some write errors, a result
ReplaceOne ==
    /\ pc = "ReplaceOne"
    /\ \E ok \in Outcomes("ReplaceOne") :
        /\ Unchecked(ok, "Result4c")
        /\ IF ok
           THEN /\ podcastsCollection' \in
                       ReplaceOneResults(podcastsCollection, FilterAuthor, Replacement)
                /\ prevPodcasts' = podcastsCollection
                /\ resultNil' = FALSE
           ELSE /\ UNCHANGED <<podcastsCollection, prevPodcasts>>
                /\ resultNil' \in BOOLEAN
    /\ UNCHANGED <<episodesCollection, existing, nextId, podcastId, episodes, i,
                   podcast, episodesFiltered, episodesSorted, podcasts, cur,
                   initial, env>>

\* result.ModifiedCount: a nil result panics
Result4c ==
    /\ pc = "Result4c"
    /\ IF resultNil THEN Panics ELSE Plain("DeleteOne")
    /\ UNCHANGED <<store, prog, cur, hist, env>>

----------------------------------------------------------------------------
(* 5) Delete documents, drop the collections and the database *)

DeleteOne ==
    /\ pc = "DeleteOne"
    /\ \E ok \in Outcomes("DeleteOne") :
        /\ Checked(ok, "DeleteMany")
        /\ IF ok
           THEN /\ podcastsCollection' \in
                       DeleteOneResults(podcastsCollection, FilterById(podcastId))
                /\ prevPodcasts' = podcastsCollection
           ELSE UNCHANGED <<podcastsCollection, prevPodcasts>>
    /\ UNCHANGED <<episodesCollection, existing, nextId, prog, cur, initial, env>>

DeleteMany ==
    /\ pc = "DeleteMany"
    /\ \E ok \in Outcomes("DeleteMany") :
        /\ Checked(ok, "DropPodcasts")
        /\ episodesCollection' =
               IF ok THEN DeleteManyResult(episodesCollection, FilterDuration25)
                     ELSE episodesCollection
    /\ UNCHANGED <<podcastsCollection, existing, nextId, prog, cur, hist, env>>

DropPodcasts ==
    /\ pc = "DropPodcasts"
    /\ \E ok \in Outcomes("DropPodcasts") :
        /\ Checked(ok, "DropEpisodes")
        /\ IF ok
           THEN /\ podcastsCollection' = Dropped(podcastsCollection)
                /\ existing' = existing \ {"podcasts"}
           ELSE UNCHANGED <<podcastsCollection, existing>>
    /\ UNCHANGED <<episodesCollection, nextId, prog, cur, hist, env>>

DropEpisodes ==
    /\ pc = "DropEpisodes"
    /\ \E ok \in Outcomes("DropEpisodes") :
        /\ Checked(ok, "DropDatabase")
        /\ IF ok
           THEN /\ episodesCollection' = Dropped(episodesCollection)
                /\ existing' = existing \ {"episodes"}
           ELSE UNCHANGED <<episodesCollection, existing>>
    /\ UNCHANGED <<podcastsCollection, nextId, prog, cur, hist, env>>

DropDatabase ==
    /\ pc = "DropDatabase"
    /\ \E ok \in Outcomes("DropDatabase") :
        /\ Checked(ok, "Return")
        /\ IF ok
           THEN /\ podcastsCollection' = Dropped(podcastsCollection)
                /\ episodesCollection' = Dropped(episodesCollection)
                /\ existing' = {}
           ELSE UNCHANGED <<podcastsCollection, episodesCollection, existing>>
    /\ UNCHANGED <<nextId, prog, cur, hist, env>>

----------------------------------------------------------------------------
(* The end of main(): deferred calls run on return and on a panic *)

Unwinding == pc \in {"Return", "Panic"} /\ defers # <<>>

\* the deferred call that runs next, recorded with the state it runs in
RunDeferred(call) ==
    /\ Unwinding
    /\ defers[DeferredIndex(defers)] = call
    /\ defers' = RemoveAt(defers, DeferredIndex(defers))
    /\ cleanup' = Append(cleanup, [call |-> call,
                                   cancelled |-> ctxCancelled,
                                   client |-> clientState,
                                   ops |-> opCount])
    /\ UNCHANGED <<pc, exitCode, lastErr, opCount, store, prog, hist, ctxExpired>>

\* defer cursor.Close(ctx), registered for the cursor of 3b
DeferredClose ==
    /\ RunDeferred("Close")
    /\ CloseCursor("cursor3b")
    /\ UNCHANGED <<clientState, disconnects, ctxCancelled>>

\* defer func() { client.Disconnect(ctx) }()
DeferredDisconnect ==
    /\ RunDeferred("Disconnect")
    /\ clientState' = "disconnected"
    /\ disconnects' = disconnects + 1
    /\ UNCHANGED <<cur, ctxCancelled>>

\* defer func() { cancel() }()
DeferredCancel ==
    /\ RunDeferred("cancel")
    /\ ctxCancelled' = TRUE
    /\ UNCHANGED <<cur, clientState, disconnects>>

\* main returns (status 0) or the panic ends the process (status 2)
Exit ==
    /\ pc \in {"Return", "Panic"}
    /\ defers = <<>>
    /\ pc' = "Exited"
    /\ exitCode' = IF pc = "Return" THEN 0 ELSE 2
    /\ UNCHANGED <<lastErr, opCount, store, prog, cur, hist, env>>

Next ==
    \/ NewClient \/ WithTimeout \/ DeadlineExpires \/ Connect \/ DeferDisconnect
    \/ Ping \/ ListDatabaseNames
    \/ InsertOne1 \/ InsertOne2 \/ InsertMany
    \/ Find3a \/ All3a \/ Find3b \/ DeferClose \/ Next3b \/ Decode3b
    \/ FindOne3c \/ Find3d \/ All3d \/ Find3e \/ All3e
    \/ Find4a1 \/ All4a1 \/ Index4a1 \/ UpdateOne
    \/ Find4a2 \/ All4a2 \/ Index4a2 \/ UpdateMany
    \/ ReplaceOne \/ Result4c
    \/ DeleteOne \/ DeleteMany \/ DropPodcasts \/ DropEpisodes \/ DropDatabase
    \/ DeferredClose \/ DeferredDisconnect \/ DeferredCancel \/ Exit

Spec == Init /\ [][Next]_vars

----------------------------------------------------------------------------
(* Properties *)

\* the calls that talk to the store and are given a context
RoundTripPcs ==
    {"Connect", "Ping", "ListDatabaseNames", "InsertOne1", "InsertOne2",
     "InsertMany", "Find3a", "Find3b", "FindOne3c", "Find3d", "Find3e",
     "Find4a1", "UpdateOne", "Find4a2", "UpdateMany", "ReplaceOne",
     "DeleteOne", "DeleteMany", "DropPodcasts", "DropEpisodes", "DropDatabase"}

\* the statements between the completed insert step and the deletes
ReadUpdatePcs ==
    {"Find3a", "All3a", "Find3b", "DeferClose", "Next3b", "Decode3b",
     "FindOne3c", "Find3d", "All3d", "Find3e", "All3e",
     "Find4a1", "All4a1", "Index4a1", "UpdateOne",
     "Find4a2", "All4a2", "Index4a2", "UpdateMany", "ReplaceOne", "Result4c",
     "DeleteOne"}

\* C1: once a step of the workflow has returned an error, no further step of
\* the workflow is issued, and the process ends with a failure status.
C1_ErrorEndsWorkflow ==
    [][lastErr => (opCount' = opCount /\ (pc' = "Exited" => exitCode' # 0))]_vars

\* C2: when the process has ended and Connect had succeeded, Disconnect has
\* been performed exactly once.
C2_DisconnectedOnce ==
    (pc = "Exited" /\ clientState \in {"connected", "disconnected"})
        => disconnects = 1

\* C3: when the process has ended, no cursor opened by a Find is still open.
C3_CursorsClosed ==
    pc = "Exited" => \A c \in CursorNames : cursors[c] # "open"

C5_EpisodesReferencePodcast ==
    (pc \in ReadUpdatePcs /\ initial.episodes = {})
        => /\ Cardinality(episodesCollection) = 2
           /\ podcastId = FirstFreshId + 1
           /\ \A e \in episodesCollection : e.podcast = podcastId
           /\ \E p \in podcastsCollection : p._id = podcastId

C5_Witness ==
    /\ pc = "DeleteOne"
    /\ initial.episodes = {}
    /\ Cardinality(episodesCollection) = 2

\* C6: after the partial update the captured podcast has author "Nicky Raboy"
\* and its title and tags as inserted, every other podcast is as it was, and
\* a successful re-read by identifier yields that document; after the
\* update-many every podcast with the title "The Polyglot Dev Pod" has author
\* "Nicolas Raboy".
C6_Updates ==
    /\ pc \in {"Find4a2", "All4a2", "Index4a2", "UpdateMany"}
          => /\ [_id |-> podcastId, title |-> "The Polyglot Dev Pod",
                 author |-> "Nicky Raboy",
                 tags |-> <<"development", "programming", "coding">>]
                     \in podcastsCollection
             /\ { p \in podcastsCollection : p._id # podcastId }
                    = { p \in prevPodcasts : p._id # podcastId }
             /\ Cardinality(podcastsCollection) = Cardinality(prevPodcasts)
    /\ (pc \in {"Index4a2", "UpdateMany"} /\ ~lastErr)
          => /\ Len(podcasts) = 1
             /\ podcasts[1]._id = podcastId
             /\ podcasts[1].author = "Nicky Raboy"
    /\ pc = "ReplaceOne"
          => /\ \A p \in podcastsCollection :
                    p.title = "The Polyglot Dev Pod" => p.author = "Nicolas Raboy"
             /\ \E p \in podcastsCollection : p._id = podcastId

C6_Witness ==
    /\ pc = "UpdateMany"
    /\ ~lastErr
    /\ Len(podcasts) = 1
    /\ Cardinality(podcastsCollection) = 3

\* C7: after a successful ReplaceOne exactly one podcast differs from before:
\* it had author "Nicolas Raboy", keeps its identifier, and now consists of
\* the title "The Nic Raboy Show" and the author "Nico Raboy" only.
C7_ReplaceOne ==
    (pc = "Result4c" /\ ~lastErr)
        => \E d \in prevPodcasts :
              /\ d.author = "Nicolas Raboy"
              /\ prevPodcasts \ podcastsCollection = {d}
              /\ podcastsCollection \ prevPodcasts =
                     {[_id |-> d._id, title |-> "The Nic Raboy Show",
                       author |-> "Nico Raboy"]}

C7_Witness ==
    /\ pc = "Result4c"
    /\ ~lastErr
    /\ \E d \in prevPodcasts \ podcastsCollection : "tags" \in DOMAIN d

\* C8: when main() has run to its end without an error, no document and no
\* collection of the quickstart database is left.
C8_NothingRemains ==
    (pc = "Return" \/ (pc = "Exited" /\ exitCode = 0))
        => /\ podcastsCollection = {}
           /\ episodesCollection = {}
           /\ existing = {}

C8_Witness ==
    /\ pc = "Exited"
    /\ exitCode = 0
    /\ initial.podcasts # {}
    /\ initial.episodes # {}

\* C9: the sorted read yields exactly the episodes with duration > 20, each
\* once, by descending duration, and the read leaves the store as it is.
C9_SortedRead ==
    /\ [](pc = "Find4a1"
            => /\ { episodesSorted[k] : k \in 1..Len(episodesSorted) }
                      = { e \in episodesCollection : e.duration > 20 }
               /\ Len(episodesSorted)
                      = Cardinality({ e \in episodesCollection : e.duration > 20 })
               /\ \A a, b \in 1..Len(episodesSorted) :
                      a < b => episodesSorted[a].duration
                                   >= episodesSorted[b].duration)
    /\ [][(pc \in {"Find3e", "All3e"}) => (store' = store)]_vars

C9_Witness ==
    /\ pc = "Find4a1"
    /\ \E e \in episodesCollection : e.duration = 20
    /\ Len(episodesSorted) = 2
    /\ episodesSorted[1].duration = 32
    /\ episodesSorted[2].duration = 25

\* C10: when every step has succeeded, the deferred calls have run after the
\* last drop in the order Close, Disconnect, cancel: the cursor is closed while
\* the client is connected, Disconnect is called before cancel, and no step of
\* the workflow is issued after it.
C10_CleanupOrder ==
    (pc = "Exited" /\ exitCode = 0)
        => /\ Len(cleanup) = 3
           /\ cleanup[1].call = "Close"
           /\ cleanup[2].call = "Disconnect"
           /\ cleanup[3].call = "cancel"
           /\ cleanup[1].client = "connected"
           /\ ~cleanup[2].cancelled
           /\ \A k \in 1..3 : cleanup[k].ops = opCount
           /\ clientState = "disconnected"
           /\ ctxCancelled
           /\ cursors["cursor3b"] = "closed"

C10_Witness ==
    /\ pc = "Exited"
    /\ exitCode = 0
    /\ Len(cleanup) = 3

====
